---- MODULE Spec2Model ----
(***************************************************************************)
(* Model of the oracle pallet (pallets/oracle/src/lib.rs): the registry of *)
(* storage keys and providers, the per-(key, provider) data feeds, the     *)
(* scheduled calculation in on_finalize and the reduction calc_impl.       *)
(*                                                                         *)
(* u128 and the inner value of FixedU128 are scaled down: U128_MAX stands  *)
(* for 2^128 - 1 and FIXED_DIV for FixedU128::DIV (10^18).  A call that    *)
(* panics is recorded with the result "Panic"; nothing runs after it.      *)
(***************************************************************************)
EXTENDS Integers, Sequences, FiniteSets, TLC

\* ---------------------------------------------------------------- bounds
U128_MAX == 100
FIXED_DIV == 2
MaxBlock == 3
MaxBlockE2E == 5
MaxNumbers == 3

\* ------------------------------------------------------ program constants
RING_BUF_LEN == 8

\* ------------------------------------------------------------ input sets
Keys == {"K1", "K2"}
SpecKeys == {"K1"}
Accounts == {"S1", "S2"}
KeyStrs == {<<"a">>}
Urls == {<<"u">>}
Schedules == {0, 2, 3, 5}

None == <<>>
Some(x) == <<x>>
Unwrap(o) == o[1]

\* enum Operations
Operations == {"Average", "Sum"}

\* enum NumberType
NumberType == {"U128", "FixedU128"}

\* enum PrimitiveOracleType; a FixedU128 is kept as its inner u128
U128(n) == [t |-> "U128", v |-> n]
FixedU128(n) == [t |-> "FixedU128", v |-> n]

\* mutant: every value is taken for a U128
number_type_always_u128(value) == "U128"

\* PrimitiveOracleType::number_type
number_type(value) == value.t

\* struct Info
Info == [key_str : KeyStrs, number_type : NumberType,
         operation : Operations, schedule : Schedules]

\* the infos the keys are registered with
SpecInfos ==
    {[key_str |-> <<"a">>, number_type |-> "U128", operation |-> "Sum", schedule |-> 3],
     [key_str |-> <<"a">>, number_type |-> "U128", operation |-> "Average", schedule |-> 2],
     [key_str |-> <<"a">>, number_type |-> "FixedU128", operation |-> "Sum", schedule |-> 2],
     [key_str |-> <<"a">>, number_type |-> "FixedU128", operation |-> "Average", schedule |-> 3],
     [key_str |-> <<"a">>, number_type |-> "U128", operation |-> "Sum", schedule |-> 0]}

\* the values the providers feed
FeedValues == {U128(3), U128(7), FixedU128(3)}

\* the origins of the calls: root, or signed by an account
Origins == {[kind |-> "Root", who |-> "root"]}
             \cup {[kind |-> "Signed", who |-> a] : a \in Accounts}

VARIABLES
    activeParamTypes,  \* ActiveParamTypes: Vec<StorageKey>
    activeProviders,   \* ActiveProviders: Vec<AccountId>
    infos,             \* Infos: key -> Option<Info>
    url,               \* Url: key -> Option<Vec<u8>>
    dataFeeds,         \* DataFeeds: key -> account -> Option<[value; RING_BUF_LEN]>
    published,         \* the unhashed storage value under each key
    block_number,      \* the number of the block being executed
    lastCall,          \* the last call, its arguments and its result
    feedsWithout,      \* for each account x: DataFeeds had x never fed data
    fold,              \* the state of one evaluation of calc_impl
    conv,              \* the state of one evaluation of from_number_value
    parse              \* the state of one evaluation of parse_data

storeVars == <<activeParamTypes, activeProviders, infos, url, dataFeeds, published>>
vars == <<activeParamTypes, activeProviders, infos, url, dataFeeds, published,
          block_number, lastCall, feedsWithout, fold, conv, parse>>

\* ------------------------------------------------------------ Vec helpers
Range(s) == {s[i] : i \in 1..Len(s)}
Contains(s, x) == x \in Range(s)
Push(s, x) == Append(s, x)
Retain(s, x) == SelectSeq(s, LAMBDA e : e # x)
Count(s, x) == Cardinality({i \in 1..Len(s) : s[i] = x})
Min(a, b) == IF a <= b THEN a ELSE b

\* ------------------------------------------------------------ arithmetic
\* mutant: the addition wraps around
wrapping_add(a, b) == (a + b) % (U128_MAX + 1)

\* mutant: checked_add(..).unwrap_or(a), the sum so far is kept on overflow
add_or_keep(a, b) == IF a + b > U128_MAX THEN a ELSE a + b

\* u128::saturating_add, FixedU128::saturating_add (on the inner value)
saturating_add(a, b) == IF a + b > U128_MAX THEN U128_MAX ELSE a + b

\* FixedU128::from(len as u128): saturated_from_integer
FixedFromInteger(len) == IF len * FIXED_DIV > U128_MAX THEN U128_MAX ELSE len * FIXED_DIV

\* u128::checked_div: None when the divisor is zero
checked_div_u128(a, n) == IF n = 0 THEN None ELSE Some(a \div n)

\* FixedU128::checked_div on inner values: a * DIV / n, None when n is zero
\* or the quotient does not fit
checked_div_fixed(a, n) ==
    IF n = 0 THEN None
    ELSE IF (a * FIXED_DIV) \div n > U128_MAX THEN None
    ELSE Some((a * FIXED_DIV) \div n)

RECURSIVE FoldSum(_, _)
FoldSum(numbers, zero) ==
    IF numbers = <<>> THEN zero
    ELSE saturating_add(FoldSum(SubSeq(numbers, 1, Len(numbers) - 1), zero),
                        numbers[Len(numbers)])

unwrap_or(o, d) == IF o = None THEN d ELSE Unwrap(o)

\* calc_impl over the inner numbers of one kind
calc_impl(numbers, kind, op) ==
    IF op = "Sum" THEN FoldSum(numbers, 0)
    ELSE IF numbers = <<>> THEN 0
    ELSE LET sum == FoldSum(numbers, 0)
         IN  IF kind = "U128"
             THEN unwrap_or(checked_div_u128(sum, Len(numbers)), 0)
             ELSE unwrap_or(checked_div_fixed(sum, FixedFromInteger(Len(numbers))), 0)

\* ------------------------------------------------------------ calc
\* the orders in which drain_prefix may iterate the accounts under a key
Orders == {o \in [1..Cardinality(Accounts) -> Accounts] : Range(o) = Accounts}

RECURSIVE DrainFoldAll(_, _, _, _)
\* mutant: the buffers of all accounts are appended, providers or not
DrainFoldAll(fdk, providers, ord, i) ==
    IF i = 0 THEN <<>>
    ELSE LET who == ord[i]
             src == DrainFoldAll(fdk, providers, ord, i - 1)
         IN  IF fdk[who] # None THEN src \o Unwrap(fdk[who]) ELSE src

RECURSIVE DrainFold(_, _, _, _)
\* drain_prefix(&key).fold(...): the buffers of the current providers, appended
\* in iteration order; the buffers of the others are dropped
DrainFold(fdk, providers, ord, i) ==
    IF i = 0 THEN <<>>
    ELSE LET who == ord[i]
             src == DrainFold(fdk, providers, ord, i - 1)
         IN  IF fdk[who] # None /\ Contains(providers, who)
             THEN src \o Unwrap(fdk[who])
             ELSE src

\* filter_map to the inner numbers of the kind of the key
FilterKind(data, kind) ==
    LET sel == SelectSeq(data, LAMBDA num : num.t = kind)
    IN  [i \in 1..Len(sel) |-> sel[i].v]

\* mutant: the result is always wrapped as a U128, the default kind
calc_always_u128(fdk, providers, info, ord) ==
    LET data == DrainFold(fdk, providers, ord, Len(ord))
        numbers == FilterKind(data, info.number_type)
    IN  U128(calc_impl(numbers, info.number_type, info.operation))

\* the value calc writes under the key
calc(fdk, providers, info, ord) ==
    LET data == DrainFold(fdk, providers, ord, Len(ord))
        numbers == FilterKind(data, info.number_type)
        res == calc_impl(numbers, info.number_type, info.operation)
    IN  IF info.number_type = "U128" THEN U128(res) ELSE FixedU128(res)

NoFeeds == [a \in Accounts |-> None]

\* ------------------------------------------------------------ results
\* the last call: its name, its key, its result, and for on_finalize the
\* (key, account) pairs whose buffer calc dropped without using it
Call(op, key, res) == [op |-> op, key |-> key, res |-> res, dropped |-> {}]

NoKey == "-"

\* T::DispatchOrigin: the signed accounts the runtime lets manage the pallet
DispatchAccounts == {"S1"}

\* T::DispatchOrigin::try_origin(origin).map(|_| ()).or_else(ensure_root)
EnsureDispatchOrRoot(origin) ==
    \/ origin.kind = "Signed" /\ origin.who \in DispatchAccounts
    \/ origin.kind = "Root"

\* ensure_signed
EnsureSigned(origin) == origin.kind = "Signed"

\* ------------------------------------------------------------ Init
TypeOK ==
    /\ Range(activeParamTypes) \subseteq Keys
    /\ Range(activeProviders) \subseteq Accounts
    /\ \A k \in Keys : infos[k] = None \/ Unwrap(infos[k]) \in Info
    /\ \A k \in Keys : url[k] = None \/ Unwrap(url[k]) \in Urls
    /\ \A k \in Keys : \A a \in Accounts :
          dataFeeds[k][a] = None \/ Len(Unwrap(dataFeeds[k][a])) = RING_BUF_LEN
    /\ block_number \in 1..(MaxBlockE2E + 1)

\* ------------------------------------------------------------ from_number_value
\* stands for i64::MAX = 2^63 - 1 (scaled down; below U128_MAX / FIXED_DIV as
\* in the code, so FixedU128::from never saturates on an i64 numerator)
I64_MAX == 31

Abs(x) == IF x < 0 THEN -x ELSE x

\* the wrapped value of an i64 operation whose true result is x
wrap_i64(x) == ((x + I64_MAX + 1) % (2 * I64_MAX + 2)) - (I64_MAX + 1)

\* an i64 result: the wrapped value, and whether an operation overflowed (a
\* build with overflow checks panics there, one without them goes on)
I64(x, ovf) == [v |-> wrap_i64(x),
                ovf |-> ovf \/ x > I64_MAX \/ x < -(I64_MAX + 1)]

\* 10_i64.pow(e)
RECURSIVE pow10_i64(_)
pow10_i64(e) ==
    IF e = 0 THEN [v |-> 1, ovf |-> FALSE]
    ELSE LET r == pow10_i64(e - 1) IN I64(r.v * 10, r.ovf)

\* val.fraction as i64: the u64 reinterpreted, never a panic
as_i64(f) == IF f > I64_MAX THEN f - (2 * I64_MAX + 2) ELSE f

\* FixedU128::from((n, d)) for d # 0: n / d in units of 1 / FIXED_DIV, rounded
\* down, saturating at zero for a negative ratio and at the maximum
FixedFromRational(n, d) ==
    IF (n < 0) # (d < 0) THEN 0
    ELSE Min((Abs(n) * FIXED_DIV) \div Abs(d), U128_MAX)

\* mutant: the U128 branch casts without looking at the sign
from_number_value_unsigned(val, target_type) ==
    [res |-> Some(U128(IF val.integer < 0
                       THEN val.integer + 2 * I64_MAX + 2 ELSE val.integer)),
     ovf |-> FALSE, div0 |-> FALSE]

\* from_number_value: the value returned (res), whether an i64 operation
\* overflowed on the way (ovf) and whether the denominator came out as zero
from_number_value(val, target_type) ==
    IF target_type = "U128"
    THEN IF val.integer < 0
         THEN [res |-> None, ovf |-> FALSE, div0 |-> FALSE]
         ELSE [res |-> Some(U128(val.integer)), ovf |-> FALSE, div0 |-> FALSE]
    ELSE IF val.integer < 0
         THEN [res |-> None, ovf |-> FALSE, div0 |-> FALSE]
         ELSE LET decimal_point == -val.fraction_length + val.exponent
                  p == pow10_i64(val.fraction_length)
                  scaled == I64(val.integer * p.v, p.ovf)
                  mantissa == I64(scaled.v + as_i64(val.fraction), scaled.ovf)
                  q == pow10_i64(Abs(decimal_point))
                  n == IF decimal_point >= 0
                       THEN I64(mantissa.v * q.v, mantissa.ovf \/ q.ovf)
                       ELSE mantissa
                  d == IF decimal_point >= 0 THEN 1 ELSE q.v
                  ovf == IF decimal_point >= 0 THEN n.ovf ELSE n.ovf \/ q.ovf
              IN  [res |-> IF d = 0 THEN None
                           ELSE Some(FixedU128(FixedFromRational(n.v, d))),
                   ovf |-> ovf, div0 |-> d = 0]

IdleConv == [val |-> [integer |-> 0, fraction |-> 0, fraction_length |-> 0,
                      exponent |-> 0],
             target |-> "U128", done |-> FALSE, panic |-> FALSE, res |-> None]

\* ------------------------------------------------------------ parse_data
\* k.iter().all(|k| Some(*k) == key_str.next()) for the member key k from its
\* j-th character on, pos characters of key_str being consumed already: the
\* verdict and the characters consumed after it; all stops at the first
\* character that differs, which is consumed
RECURSIVE AllNext(_, _, _, _)
AllNext(k, j, key_str, pos) ==
    IF j > Len(k) THEN [ok |-> TRUE, pos |-> pos]
    ELSE IF pos >= Len(key_str) THEN [ok |-> FALSE, pos |-> pos]
    ELSE IF key_str[pos + 1] = k[j] THEN AllNext(k, j + 1, key_str, pos + 1)
    ELSE [ok |-> FALSE, pos |-> pos + 1]

\* obj.into_iter().find(..) from the i-th member on: key_str is one iterator
\* for all members, it is not set back between them
RECURSIVE Find(_, _, _, _)
Find(members, i, key_str, pos) ==
    IF i > Len(members) THEN None
    ELSE LET r == AllNext(members[i].key, 1, key_str, pos)
         IN  IF r.ok THEN Some(members[i])
             ELSE Find(members, i + 1, key_str, r.pos)

\* parse_data on the result of lite_json::parse_json: as from_number_value,
\* the value returned and whether the conversion overflowed
parse_data(key_str, target_type, doc) ==
    LET none == [res |-> None, ovf |-> FALSE, div0 |-> FALSE]
    IN  IF doc.root # "Object" THEN none
        ELSE LET found == Find(doc.members, 1, key_str, 0)
             IN  IF found = None THEN none
                 ELSE IF Unwrap(found).value.type # "Number" THEN none
                 ELSE from_number_value(Unwrap(found).value.number, target_type)

IdleParse == [doc |-> [root |-> "Object", members |-> <<>>], key_str |-> <<>>,
              number_type |-> "U128", done |-> FALSE, panic |-> FALSE, res |-> None]

IdleFold == [numbers |-> <<>>, kind |-> "U128", op |-> "Sum", out |-> 0]

Init ==
    /\ activeParamTypes = <<>>
    /\ activeProviders = <<>>
    /\ infos = [k \in Keys |-> None]
    /\ url = [k \in Keys |-> None]
    /\ dataFeeds = [k \in Keys |-> NoFeeds]
    /\ published = [k \in Keys |-> None]
    /\ block_number = 1
    /\ lastCall = Call("init", NoKey, "Ok")
    /\ feedsWithout = [x \in Accounts |-> [k \in Keys |-> NoFeeds]]
    /\ fold = IdleFold
    /\ conv = IdleConv
    /\ parse = IdleParse

\* a call that fails before it writes anything
Fail(c) ==
    /\ lastCall' = c
    /\ UNCHANGED <<activeParamTypes, activeProviders, infos, url, dataFeeds,
                   published, block_number, feedsWithout, fold, conv, parse>>

\* ------------------------------------------------------------ registry
\* mutant: the info is stored before the key is looked up
register_overwrites(origin, key, info) ==
    IF ~EnsureDispatchOrRoot(origin)
    THEN Fail(Call("register_storage_key", key, "BadOrigin"))
    ELSE /\ activeParamTypes' = IF Contains(activeParamTypes, key)
                                THEN activeParamTypes
                                ELSE Push(activeParamTypes, key)
         /\ infos' = [infos EXCEPT ![key] = Some(info)]
         /\ lastCall' = Call("register_storage_key", key,
                             IF Contains(activeParamTypes, key) THEN "ExistedKey" ELSE "Ok")
         /\ UNCHANGED <<activeProviders, url, dataFeeds, published, block_number,
                        feedsWithout, fold, conv, parse>>

register_storage_key(origin, key, info) ==
    IF ~EnsureDispatchOrRoot(origin)
    THEN Fail(Call("register_storage_key", key, "BadOrigin"))
    ELSE IF Contains(activeParamTypes, key)
    THEN Fail(Call("register_storage_key", key, "ExistedKey"))
    ELSE /\ activeParamTypes' = Push(activeParamTypes, key)
         /\ infos' = [infos EXCEPT ![key] = Some(info)]
         /\ lastCall' = Call("register_storage_key", key, "Ok")
         /\ UNCHANGED <<activeProviders, url, dataFeeds, published, block_number,
                        feedsWithout, fold, conv, parse>>

\* mutant: the key stays in ActiveParamTypes
remove_keeps_key(origin, key) ==
    IF ~EnsureDispatchOrRoot(origin)
    THEN Fail(Call("remove_storage_key", key, "BadOrigin"))
    ELSE /\ infos' = [infos EXCEPT ![key] = None]
         /\ dataFeeds' = [dataFeeds EXCEPT ![key] = NoFeeds]
         /\ feedsWithout' = [x \in Accounts |-> [feedsWithout[x] EXCEPT ![key] = NoFeeds]]
         /\ lastCall' = Call("remove_storage_key", key, "Ok")
         /\ UNCHANGED <<activeParamTypes, activeProviders, url, published,
                        block_number, fold, conv, parse>>

\* mutant: the data feeds under the key are left in place
remove_keeps_feeds(origin, key) ==
    IF ~EnsureDispatchOrRoot(origin)
    THEN Fail(Call("remove_storage_key", key, "BadOrigin"))
    ELSE /\ activeParamTypes' = Retain(activeParamTypes, key)
         /\ infos' = [infos EXCEPT ![key] = None]
         /\ lastCall' = Call("remove_storage_key", key, "Ok")
         /\ UNCHANGED <<activeProviders, url, dataFeeds, published, block_number,
                        feedsWithout, fold, conv, parse>>

remove_storage_key(origin, key) ==
    IF ~EnsureDispatchOrRoot(origin)
    THEN Fail(Call("remove_storage_key", key, "BadOrigin"))
    ELSE /\ activeParamTypes' = Retain(activeParamTypes, key)
         /\ infos' = [infos EXCEPT ![key] = None]
         /\ dataFeeds' = [dataFeeds EXCEPT ![key] = NoFeeds]
         /\ feedsWithout' = [x \in Accounts |-> [feedsWithout[x] EXCEPT ![key] = NoFeeds]]
         /\ lastCall' = Call("remove_storage_key", key, "Ok")
         /\ UNCHANGED <<activeProviders, url, published, block_number, fold, conv, parse>>

set_url(origin, key, u) ==
    IF ~EnsureDispatchOrRoot(origin)
    THEN Fail(Call("set_url", key, "BadOrigin"))
    ELSE /\ url' = [url EXCEPT ![key] = Some(u)]
         /\ lastCall' = Call("set_url", key, "Ok")
         /\ UNCHANGED <<activeParamTypes, activeProviders, infos, dataFeeds, published,
                        block_number, feedsWithout, fold, conv, parse>>

add_provider(origin, new_one) ==
    IF ~EnsureDispatchOrRoot(origin)
    THEN Fail(Call("add_provider", NoKey, "BadOrigin"))
    ELSE /\ activeProviders' = IF ~Contains(activeProviders, new_one)
                               THEN Push(activeProviders, new_one)
                               ELSE activeProviders
         /\ lastCall' = Call("add_provider", NoKey, "Ok")
         /\ UNCHANGED <<activeParamTypes, infos, url, dataFeeds, published,
                        block_number, feedsWithout, fold, conv, parse>>

remove_provider(origin, who) ==
    IF ~EnsureDispatchOrRoot(origin)
    THEN Fail(Call("remove_provider", NoKey, "BadOrigin"))
    ELSE /\ activeProviders' = Retain(activeProviders, who)
         /\ lastCall' = Call("remove_provider", NoKey, "Ok")
         /\ UNCHANGED <<activeParamTypes, infos, url, dataFeeds, published,
                        block_number, feedsWithout, fold, conv, parse>>

\* ------------------------------------------------------------ feed_data
\* new_data[1..]: the slots the old data is copied into
ShiftDstLen(data) == Len(data) - 1

\* &data[0..(data.len() - 2)]: the slots of the old data that are copied
ShiftSrcLen(data) == Len(data) - 2

\* copy_from_slice panics unless both slices have the same length
CopyPanics(data) == ShiftDstLen(data) # ShiftSrcLen(data)

\* the buffer written back when the pair already has one
ShiftIn(data, value) == <<value>> \o SubSeq(data, 1, ShiftSrcLen(data))

\* [value; RING_BUF_LEN]
FilledWith(value) == [i \in 1..RING_BUF_LEN |-> value]

\* the entry try_mutate_exists writes back
NewEntry(old, value) ==
    IF old = None THEN Some(FilledWith(value)) ELSE Some(ShiftIn(Unwrap(old), value))

feed_data_impl(who, key, value) ==
    IF ~Contains(activeParamTypes, key)
    THEN Fail(Call("feed_data", key, "InvalidKey"))
    ELSE IF infos[key] = None
    THEN Fail(Call("feed_data", key, "InvalidKey"))
    ELSE IF number_type(value) # Unwrap(infos[key]).number_type
    THEN Fail(Call("feed_data", key, "InvalidValue"))
    ELSE IF dataFeeds[key][who] # None /\ CopyPanics(Unwrap(dataFeeds[key][who]))
    THEN Fail(Call("feed_data", key, "Panic"))
    ELSE /\ dataFeeds' = [dataFeeds EXCEPT ![key][who] = NewEntry(@, value)]
         /\ feedsWithout' = [x \in Accounts |->
                IF x = who THEN feedsWithout[x]
                ELSE [feedsWithout[x] EXCEPT ![key][who] = NewEntry(@, value)]]
         /\ lastCall' = Call("feed_data", key, "Ok")
         /\ UNCHANGED <<activeParamTypes, activeProviders, infos, url, published,
                        block_number, fold, conv, parse>>

feed_data(origin, key, value) ==
    IF ~EnsureSigned(origin)
    THEN Fail(Call("feed_data", key, "BadOrigin"))
    ELSE feed_data_impl(origin.who, key, value)

\* ------------------------------------------------------------ on_finalize
Registered == {k \in Keys : infos[k] # None}

\* _n % info.schedule panics when the schedule is zero
RemPanics(k) == Unwrap(infos[k]).schedule = 0

\* _n % info.schedule == Zero::zero()
Triggered(k, n) ==
    /\ infos[k] # None
    /\ Unwrap(infos[k]).schedule # 0
    /\ n % Unwrap(infos[k]).schedule = 0

\* the buffers drained for the keys of `ran` whose account is no provider
Dropped(ran) ==
    {<<k, a>> \in ran \X Accounts :
        dataFeeds[k][a] # None /\ ~Contains(activeProviders, a)}

\* mutant: calc reads the buffers and leaves them in DataFeeds
CalcAllKeep(ran, ord) ==
    /\ UNCHANGED <<dataFeeds, feedsWithout>>
    /\ published' = [k \in Keys |->
           IF k \in ran
           THEN Some(calc(dataFeeds[k], activeProviders, Unwrap(infos[k]), ord))
           ELSE published[k]]

\* the store after calc ran for the keys of `ran`
CalcAll(ran, ord) ==
    /\ dataFeeds' = [k \in Keys |-> IF k \in ran THEN NoFeeds ELSE dataFeeds[k]]
    /\ feedsWithout' = [x \in Accounts |->
           [k \in Keys |-> IF k \in ran THEN NoFeeds ELSE feedsWithout[x][k]]]
    /\ published' = [k \in Keys |->
           IF k \in ran
           THEN Some(calc(dataFeeds[k], activeProviders, Unwrap(infos[k]), ord))
           ELSE published[k]]

\* Infos::iter() visits the keys in the order of their hashes; when a schedule
\* is zero the loop panics after the keys visited before it
on_finalize ==
    \E ord \in Orders :
         IF \E k \in Registered : RemPanics(k)
         THEN \E visited \in SUBSET {k \in Registered : ~RemPanics(k)} :
                /\ CalcAll({k \in visited : Triggered(k, block_number)}, ord)
                /\ lastCall' = [Call("on_finalize", NoKey, "Panic") EXCEPT !.dropped =
                                  Dropped({k \in visited : Triggered(k, block_number)})]
                /\ UNCHANGED <<activeParamTypes, activeProviders, infos, url,
                               block_number, fold, conv, parse>>
         ELSE /\ CalcAll({k \in Registered : Triggered(k, block_number)}, ord)
              /\ block_number' = block_number + 1
              /\ lastCall' = [Call("on_finalize", NoKey, "Ok") EXCEPT !.dropped =
                                Dropped({k \in Registered : Triggered(k, block_number)})]
              /\ UNCHANGED <<activeParamTypes, activeProviders, infos, url, fold, conv, parse>>

\* ------------------------------------------------------------ Spec
Running == lastCall.res # "Panic"

Next ==
    \/ \E o \in Origins, k \in SpecKeys, i \in SpecInfos : Running /\ register_storage_key(o, k, i)
    \/ \E o \in Origins, k \in SpecKeys : Running /\ remove_storage_key(o, k)
    \/ \E o \in Origins, k \in SpecKeys, u \in Urls : Running /\ set_url(o, k, u)
    \/ \E o \in Origins, a \in Accounts : Running /\ add_provider(o, a)
    \/ \E o \in Origins, a \in Accounts : Running /\ remove_provider(o, a)
    \/ \E o \in Origins, k \in SpecKeys, v \in FeedValues : Running /\ feed_data(o, k, v)
    \/ Running /\ block_number <= MaxBlock /\ on_finalize

Spec == Init /\ [][Next]_vars

\* ------------------------------------------------------------ end to end
\* the scenario: one U128 key summed every 5 blocks, fed by two accounts
InfoSum5 == [key_str |-> <<"a">>, number_type |-> "U128", operation |-> "Sum", schedule |-> 5]
RootOrigin == [kind |-> "Root", who |-> "root"]
SignedBy(a) == [kind |-> "Signed", who |-> a]

NextE2E ==
    \/ Running /\ register_storage_key(RootOrigin, "K1", InfoSum5)
    \/ \E a \in Accounts : Running /\ add_provider(RootOrigin, a)
    \/ \E a \in Accounts : Running /\ remove_provider(RootOrigin, a)
    \/ \E a \in Accounts, v \in {U128(3), U128(7)} :
          Running /\ feed_data(SignedBy(a), "K1", v)
    \/ Running /\ block_number <= MaxBlockE2E /\ on_finalize

SpecE2E == Init /\ [][NextE2E]_vars

\* ------------------------------------------------------------ calc_impl alone
\* the inner numbers calc_impl is applied to
NumberVals == {0, 1, 3, 7, U128_MAX - 1, U128_MAX}

InitCalc ==
    /\ activeParamTypes = <<>>
    /\ activeProviders = <<>>
    /\ infos = [k \in Keys |-> None]
    /\ url = [k \in Keys |-> None]
    /\ dataFeeds = [k \in Keys |-> NoFeeds]
    /\ published = [k \in Keys |-> None]
    /\ block_number = 1
    /\ lastCall = Call("init", NoKey, "Ok")
    /\ feedsWithout = [x \in Accounts |-> [k \in Keys |-> NoFeeds]]
    /\ \E kind \in NumberType, op \in Operations :
         fold = [numbers |-> <<>>, kind |-> kind, op |-> op,
                 out |-> calc_impl(<<>>, kind, op)]
    /\ conv = IdleConv
    /\ parse = IdleParse

\* calc_impl applied to the numbers so far and one more
ApplyCalcImpl(n) ==
    /\ Len(fold.numbers) < MaxNumbers
    /\ fold' = [fold EXCEPT !.numbers = Append(@, n),
                            !.out = calc_impl(Append(fold.numbers, n), fold.kind, fold.op)]
    /\ UNCHANGED <<activeParamTypes, activeProviders, infos, url, dataFeeds, published,
                   block_number, lastCall, feedsWithout, conv, parse>>

NextCalc == \E n \in NumberVals : ApplyCalcImpl(n)

SpecCalc == InitCalc /\ [][NextCalc]_vars

\* ------------------------------------------------------------ claims
\* C1: with K1 registered as (U128, Sum, period 5), S1 and S2 providers, S1
\* having fed 3 once and S2 having fed 7 once, on_finalize of block 5 writes
\* U128(10) under K1 and leaves no data feed under K1.
C1_EndToEndSum ==
    [][(/\ block_number = 5
        /\ lastCall'.op = "on_finalize"
        /\ infos["K1"] = Some(InfoSum5)
        /\ Contains(activeProviders, "S1")
        /\ Contains(activeProviders, "S2")
        /\ dataFeeds["K1"]["S1"] = Some(FilledWith(U128(3)))
        /\ dataFeeds["K1"]["S2"] = Some(FilledWith(U128(7)))
        /\ on_finalize)
       => (/\ published'["K1"] = Some(U128(10))
           /\ dataFeeds'["K1"] = NoFeeds)]_vars

\* C2: when calc runs for a key while account x is no provider, the value it
\* writes is the value it would have written had x never fed data under the
\* key (feedsWithout[x] is the data feeds of that run).
C2_DrainTimeAuthorization ==
    [][lastCall'.op = "on_finalize" => \A k \in Keys, x \in Accounts :
         (/\ Triggered(k, block_number)
          /\ ~Contains(activeProviders, x)
          /\ on_finalize
          /\ \/ lastCall'.res = "Ok"
             \/ published'[k] # published[k]
             \/ dataFeeds'[k] # dataFeeds[k])
         => \E ord \in Orders :
              published'[k] = Some(calc(feedsWithout[x][k], activeProviders,
                                        Unwrap(infos[k]), ord))]_vars

\* C2 witness: calc has run, dropped the buffer of an account that is no
\* provider, and wrote a value under that key.
C2_Witness ==
    /\ lastCall.op = "on_finalize"
    /\ \E d \in lastCall.dropped : published[d[1]] # None /\ published[d[1]][1].v > 0

\* C3: a feed under a (key, account) pair that already has a buffer puts the
\* new value in slot 0, moves slot i to slot i + 1 and drops only slot 7.
C3_RingBufferShift ==
    [][lastCall'.op = "feed_data" => \A o \in Origins, k \in Keys, v \in FeedValues :
         (/\ lastCall'.key = k
          /\ EnsureSigned(o)
          /\ Contains(activeParamTypes, k)
          /\ infos[k] # None
          /\ v.t = Unwrap(infos[k]).number_type
          /\ dataFeeds[k][o.who] # None
          /\ feed_data(o, k, v))
         => dataFeeds'[k][o.who] =
              Some(<<v>> \o SubSeq(Unwrap(dataFeeds[k][o.who]), 1, RING_BUF_LEN - 1))]_vars

\* C4: feed_data under a key that is not in ActiveParamTypes fails with
\* InvalidKey for every signed account and value and changes nothing; after
\* remove_storage_key the key is not in ActiveParamTypes.
C4_UnknownKey ==
    [][/\ \A o \in Origins, k \in Keys, v \in FeedValues :
            (lastCall'.op = "feed_data" /\ lastCall'.key = k /\ EnsureSigned(o) /\ ~Contains(activeParamTypes, k) /\ feed_data(o, k, v))
            => (/\ lastCall'.res = "InvalidKey"
                /\ UNCHANGED <<storeVars, feedsWithout, block_number>>)
       /\ \A o \in Origins, k \in Keys :
            (/\ lastCall'.op = "remove_storage_key"
             /\ lastCall'.key = k
             /\ EnsureDispatchOrRoot(o)
             /\ remove_storage_key(o, k))
            => ~Contains(activeParamTypes', k)]_vars

\* C4 witness: a key was registered and calculated, then removed, and a
\* feed under it failed with InvalidKey.
C4_Witness ==
    /\ lastCall.op = "feed_data"
    /\ lastCall.res = "InvalidKey"
    /\ published[lastCall.key] # None
    /\ ~Contains(activeParamTypes, lastCall.key)

\* C5: feed_data under an active key with a value whose number type differs
\* from the one of the key's info fails with InvalidValue and changes nothing.
C5_KindMismatch ==
    [][lastCall'.op = "feed_data" => \A o \in Origins, k \in Keys, v \in FeedValues :
         (/\ lastCall'.key = k
          /\ EnsureSigned(o)
          /\ Contains(activeParamTypes, k)
          /\ infos[k] # None
          /\ v.t # Unwrap(infos[k]).number_type
          /\ feed_data(o, k, v))
         => (/\ lastCall'.res = "InvalidValue"
             /\ UNCHANGED <<storeVars, feedsWithout, block_number>>)]_vars

\* C5 witness: a feed under an active key failed with InvalidValue.
C5_Witness ==
    /\ lastCall.op = "feed_data"
    /\ lastCall.res = "InvalidValue"
    /\ Contains(activeParamTypes, lastCall.key)

\* C6: register_storage_key of a key in ActiveParamTypes fails with ExistedKey
\* and changes nothing; of a key not in it, it succeeds, the key is in
\* ActiveParamTypes once and Infos holds the given info.
C6_RegisterKey ==
    [][lastCall'.op = "register_storage_key" => \A o \in Origins, k \in Keys, i \in SpecInfos :
         (lastCall'.key = k /\ EnsureDispatchOrRoot(o) /\ register_storage_key(o, k, i))
         => IF Contains(activeParamTypes, k)
            THEN /\ lastCall'.res = "ExistedKey"
                 /\ UNCHANGED <<storeVars, feedsWithout, block_number>>
            ELSE /\ lastCall'.res = "Ok"
                 /\ Count(activeParamTypes', k) = 1
                 /\ infos'[k] = Some(i)]_vars

\* C6 witness: a registration was rejected with ExistedKey while the key has
\* data fed under it.
C6_Witness ==
    /\ lastCall.op = "register_storage_key"
    /\ lastCall.res = "ExistedKey"
    /\ \E a \in Accounts : dataFeeds[lastCall.key][a] # None

\* C7: remove_storage_key by an allowed origin returns Ok whether or not the
\* key is registered; afterwards the key is not in ActiveParamTypes, has no
\* info and no data feed; a second removal right after changes nothing.
C7_RemoveKey ==
    [][lastCall'.op = "remove_storage_key" => \A o \in Origins, k \in Keys :
         (lastCall'.key = k /\ EnsureDispatchOrRoot(o) /\ remove_storage_key(o, k))
         => (/\ lastCall'.res = "Ok"
             /\ ~Contains(activeParamTypes', k)
             /\ infos'[k] = None
             /\ dataFeeds'[k] = NoFeeds
             /\ (lastCall = Call("remove_storage_key", k, "Ok")
                  => UNCHANGED <<storeVars, feedsWithout, block_number>>))]_vars

\* C7 witness: a key that was registered and calculated has been removed.
C7_Witness ==
    /\ lastCall.op = "remove_storage_key"
    /\ lastCall.res = "Ok"
    /\ published[lastCall.key] # None

\* C8: no key is registered with schedule zero.
C8_NoZeroPeriod ==
    \A k \in Keys : infos[k] # None => Unwrap(infos[k]).schedule # 0

\* C9: no call panics.
C9_NoPanic == lastCall.res # "Panic"

\* C10: Sum of two numbers is min(a + b, U128_MAX); once the sum is U128_MAX
\* one more number leaves it there; the sum is never below one of its numbers.
C10_SumSaturates ==
    /\ [](fold.op = "Sum" =>
            /\ (Len(fold.numbers) = 2 =>
                  fold.out = Min(fold.numbers[1] + fold.numbers[2], U128_MAX))
            /\ \A j \in 1..Len(fold.numbers) : fold.out >= fold.numbers[j])
    /\ [][(fold.op = "Sum" /\ fold.out = U128_MAX) => fold'.out = U128_MAX]_vars

\* C10 witness: a sum of two numbers that exceeds U128_MAX has been folded.
C10_Witness ==
    /\ fold.op = "Sum"
    /\ Len(fold.numbers) = 2
    /\ fold.numbers[1] + fold.numbers[2] > U128_MAX
    /\ fold.out = U128_MAX

\* the zero of a number type
ZeroOf(kind) == IF kind = "U128" THEN U128(0) ELSE FixedU128(0)

\* C11: when calc runs for a key under which no account that is a provider
\* has a buffer, it writes the zero of the key's number type, for Sum and for
\* Average, whatever was written under the key before.
C11_EmptyIsZero ==
    [][lastCall'.op = "on_finalize" => \A k \in Keys :
         (/\ Triggered(k, block_number)
          /\ \A a \in Accounts :
                dataFeeds[k][a] = None \/ ~Contains(activeProviders, a)
          /\ on_finalize
          /\ \/ lastCall'.res = "Ok"
             \/ published'[k] # published[k]
             \/ dataFeeds'[k] # dataFeeds[k])
         => published'[k] = Some(ZeroOf(Unwrap(infos[k]).number_type))]_vars

\* C11 witness: calc has run for a FixedU128 key whose only buffers were of
\* accounts that are no providers, and FixedU128 zero is written under it.
C11_Witness ==
    /\ lastCall.op = "on_finalize"
    /\ \E d \in lastCall.dropped :
          /\ infos[d[1]] # None
          /\ Unwrap(infos[d[1]]).number_type = "FixedU128"
          /\ published[d[1]] = Some(FixedU128(0))

\* ------------------------------------------------------------ from_number_value alone
\* 10^e, unbounded
RECURSIVE TenTo(_)
TenTo(e) == IF e = 0 THEN 1 ELSE 10 * TenTo(e - 1)

\* the NumberValues lite_json can produce: fraction has fraction_length digits
NumberValues ==
    {nv \in [integer : {-(I64_MAX + 1), -1, 0, 1, 3, I64_MAX},
             fraction : {0, 1, 5, 75},
             fraction_length : 0..2,
             exponent : {-6, -1, 0, 1, 2}] :
        nv.fraction < TenTo(nv.fraction_length)}

InitConv ==
    /\ activeParamTypes = <<>>
    /\ activeProviders = <<>>
    /\ infos = [k \in Keys |-> None]
    /\ url = [k \in Keys |-> None]
    /\ dataFeeds = [k \in Keys |-> NoFeeds]
    /\ published = [k \in Keys |-> None]
    /\ block_number = 1
    /\ lastCall = Call("init", NoKey, "Ok")
    /\ feedsWithout = [x \in Accounts |-> [k \in Keys |-> NoFeeds]]
    /\ fold = IdleFold
    /\ parse = IdleParse
    /\ \E val \in NumberValues, target \in NumberType :
         conv = [IdleConv EXCEPT !.val = val, !.target = target]

\* from_number_value applied to the input; where an i64 operation overflows
\* the build decides between a panic and the wrapped result
ApplyFromNumberValue ==
    /\ ~conv.done
    /\ LET r == from_number_value(conv.val, conv.target)
       IN  \E panics \in BOOLEAN :
             /\ panics => r.ovf
             /\ r.div0 => panics
             /\ conv' = [conv EXCEPT !.done = TRUE, !.panic = panics,
                                     !.res = IF panics THEN None ELSE r.res]
    /\ UNCHANGED <<activeParamTypes, activeProviders, infos, url, dataFeeds, published,
                   block_number, lastCall, feedsWithout, fold, parse>>

NextConv == ApplyFromNumberValue

SpecConv == InitConv /\ [][NextConv]_vars

\* C12: for every NumberValue with integer >= 0 and either number type,
\* from_number_value returns a value equal to
\* (integer * 10^fraction_length + fraction) * 10^(exponent - fraction_length),
\* and no step of it overflows (stated for the values the number type can
\* hold: a whole number up to the maximum for U128, a multiple of
\* 1 / FIXED_DIV up to the maximum for FixedU128).
C12_ConversionExact ==
    LET val == conv.val
        m == val.integer * TenTo(val.fraction_length) + val.fraction
        dp == val.exponent - val.fraction_length
        unit == IF conv.target = "U128" THEN 1 ELSE FIXED_DIV
        num == m * TenTo(IF dp > 0 THEN dp ELSE 0) * unit
        den == TenTo(IF dp < 0 THEN -dp ELSE 0)
    IN  (/\ conv.done
         /\ val.integer >= 0
         /\ num % den = 0
         /\ num \div den <= U128_MAX)
        => (/\ ~conv.panic
            /\ ~from_number_value(val, conv.target).ovf
            /\ conv.res = Some([t |-> conv.target, v |-> num \div den]))

\* C13: from_number_value returns None whenever integer < 0, for both number
\* types.
C13_NegativeIsNone ==
    (conv.done /\ conv.val.integer < 0) => (~conv.panic /\ conv.res = None)

\* C13 witness: from_number_value has returned None for a negative integer
\* with a fraction, the target being U128.
C13_Witness ==
    /\ conv.done
    /\ conv.val.integer < 0
    /\ conv.res = None
    /\ conv.val.fraction > 0
    /\ conv.target = "U128"

\* ------------------------------------------------------------ two keys
\* bound: on_finalize runs for the blocks 1..MaxBlockTwo
MaxBlockTwo == 3

\* the infos of the two-key runs: aggregated every block, every second block,
\* and with the schedule zero
TwoInfos ==
    {[key_str |-> <<"a">>, number_type |-> "U128", operation |-> "Sum", schedule |-> 1],
     [key_str |-> <<"a">>, number_type |-> "U128", operation |-> "Average", schedule |-> 2],
     [key_str |-> <<"a">>, number_type |-> "U128", operation |-> "Sum", schedule |-> 0]}

NextTwo ==
    \/ \E k \in Keys, i \in TwoInfos : Running /\ register_storage_key(RootOrigin, k, i)
    \/ \E k \in Keys : Running /\ remove_storage_key(RootOrigin, k)
    \/ Running /\ add_provider(RootOrigin, "S1")
    \/ \E k \in Keys : Running /\ feed_data(SignedBy("S1"), k, U128(3))
    \/ Running /\ block_number <= MaxBlockTwo /\ on_finalize

SpecTwo == Init /\ [][NextTwo]_vars

\* C14: when calc has run for a key, no account has a buffer under the key;
\* when it runs for a key that has no buffer, and when it runs in two
\* on_finalize calls in a row, the second writes zero: what was fed before one
\* run is not there for the next.
C14_DrainSingleShot ==
    [][lastCall'.op = "on_finalize" => \A k \in Keys :
         (/\ Triggered(k, block_number)
          /\ on_finalize
          /\ \/ lastCall'.res = "Ok"
             \/ published'[k] # published[k]
             \/ dataFeeds'[k] # dataFeeds[k])
         => (/\ dataFeeds'[k] = NoFeeds
             /\ (dataFeeds[k] = NoFeeds \/
                  (lastCall.op = "on_finalize" /\ Triggered(k, block_number - 1)))
                => published'[k] = Some(ZeroOf(Unwrap(infos[k]).number_type)))]_vars

\* C14 witness: calc has run for a key under which an account had a buffer,
\* and no buffer is left under that key.
C14_Witness ==
    /\ lastCall.op = "on_finalize"
    /\ lastCall.res = "Ok"
    /\ \E d \in lastCall.dropped : dataFeeds[d[1]] = NoFeeds

\* C15: on_finalize of block n runs calc for a registered key exactly when
\* n mod schedule = 0; otherwise it leaves the key's buffers and the value
\* under the key as they are, and it never runs calc for a key without Info.
C15_TriggerCondition ==
    [][lastCall'.op = "on_finalize" => \A k \in Keys :
         (on_finalize /\ (infos[k] # None => Unwrap(infos[k]).schedule # 0))
         => IF infos[k] # None /\ block_number % Unwrap(infos[k]).schedule = 0
            THEN /\ dataFeeds'[k] = NoFeeds
                 /\ \E ord \in Orders :
                      published'[k] = Some(calc(dataFeeds[k], activeProviders,
                                                Unwrap(infos[k]), ord))
            ELSE /\ dataFeeds'[k] = dataFeeds[k]
                 /\ published'[k] = published[k]]_vars

\* what a call does to key k when k is the only key: the Info, the buffers
\* and the value under k after on_finalize of block n
AloneAfterFinalize(k, n, ord) ==
    IF Triggered(k, n)
    THEN <<infos[k], NoFeeds,
           Some(calc(dataFeeds[k], activeProviders, Unwrap(infos[k]), ord))>>
    ELSE <<infos[k], dataFeeds[k], published[k]>>

\* C17: a call that names a key leaves the Info, the buffers and the value of
\* every other key as they are, and on_finalize does to each key what it does
\* when that key is the only one registered, so the state of a key does not
\* depend on what is done to another key.
C17_CrossKeyIndependence ==
    [][\A k \in Keys :
         /\ (lastCall'.op \in {"register_storage_key", "remove_storage_key",
                               "feed_data", "set_url"} /\ lastCall'.key # k)
            => (/\ infos'[k] = infos[k]
                /\ dataFeeds'[k] = dataFeeds[k]
                /\ published'[k] = published[k])
         /\ (lastCall'.op = "on_finalize" /\ on_finalize)
            => \E ord \in Orders :
                 <<infos'[k], dataFeeds'[k], published'[k]>>
                    = AloneAfterFinalize(k, block_number, ord)]_vars

\* the orders in which n values can stand in the Vec calc_impl folds
Perms(n) == {p \in [1..n -> 1..n] : \A i, j \in 1..n : p[i] = p[j] => i = j}

\* DataFeeds under one key: S1 holds a buffer of the first number of the
\* evaluation and S2 one of the second
FoldFeeds ==
    [a \in Accounts |->
        IF a = "S1" THEN Some(FilledWith([t |-> fold.kind, v |-> fold.numbers[1]]))
        ELSE Some(FilledWith([t |-> fold.kind, v |-> fold.numbers[2]]))]

\* the Info of a key aggregated as the evaluation is
FoldInfo == [key_str |-> <<"a">>, number_type |-> fold.kind,
             operation |-> fold.op, schedule |-> 1]

\* C16: for Sum and for Average, calc_impl returns the same value for every
\* order of the values in the Vec, and calc writes the same value for every
\* order in which drain_prefix yields the buffers, also when the sum
\* saturates.
C16_OrderIndependent ==
    /\ \A p \in Perms(Len(fold.numbers)) :
          calc_impl([i \in 1..Len(fold.numbers) |-> fold.numbers[p[i]]],
                    fold.kind, fold.op) = fold.out
    /\ Len(fold.numbers) >= 2 =>
          \A o1, o2 \in Orders, providers \in {<<"S1", "S2">>, <<"S2", "S1">>} :
             calc(FoldFeeds, providers, FoldInfo, o1)
               = calc(FoldFeeds, <<"S1", "S2">>, FoldInfo, o2)

\* C16 witness: three different values have been folded into a sum that
\* saturates only once the largest of them is added.
C16_Witness ==
    /\ fold.op = "Sum"
    /\ fold.numbers = <<3, U128_MAX - 1, 1>>
    /\ fold.out = U128_MAX

\* ------------------------------------------------------------ parse_data alone
\* bound: the members of a JSON object
MaxMembers == 2

\* the JSON number with this integer part
JsonNumber(n) == [type |-> "Number",
                  number |-> [integer |-> n, fraction |-> 0, fraction_length |-> 0,
                              exponent |-> 0]]

\* a JSON value that is no number
JsonString == [type |-> "String", number |-> JsonNumber(0).number]

MemberKeys == {<<>>, <<"a">>, <<"a", "b">>, <<"b">>, <<"x">>}
Members == [key : MemberKeys, value : {JsonNumber(1), JsonNumber(2), JsonString}]

\* what parse_json returns: an object, another JSON value, or an error
Docs ==
    {[root |-> r, members |-> <<>>] : r \in {"Object", "Array", "Err"}}
      \cup {[root |-> "Object", members |-> m] :
              m \in UNION {[1..n -> Members] : n \in 1..MaxMembers}}

\* key_str of the Info
Paths == {<<"a">>, <<"a", "b">>}

InitParse ==
    /\ activeParamTypes = <<>>
    /\ activeProviders = <<>>
    /\ infos = [k \in Keys |-> None]
    /\ url = [k \in Keys |-> None]
    /\ dataFeeds = [k \in Keys |-> NoFeeds]
    /\ published = [k \in Keys |-> None]
    /\ block_number = 1
    /\ lastCall = Call("init", NoKey, "Ok")
    /\ feedsWithout = [x \in Accounts |-> [k \in Keys |-> NoFeeds]]
    /\ fold = IdleFold
    /\ conv = IdleConv
    /\ \E doc \in Docs, key_str \in Paths, target_type \in NumberType :
         parse = [IdleParse EXCEPT !.doc = doc, !.key_str = key_str,
                                   !.number_type = target_type]

\* parse_data applied to the input
ApplyParseData ==
    /\ ~parse.done
    /\ LET r == parse_data(parse.key_str, parse.number_type, parse.doc)
       IN  \E panics \in BOOLEAN :
             /\ panics => r.ovf
             /\ r.div0 => panics
             /\ parse' = [parse EXCEPT !.done = TRUE, !.panic = panics,
                                       !.res = IF panics THEN None ELSE r.res]
    /\ UNCHANGED <<activeParamTypes, activeProviders, infos, url, dataFeeds, published,
                   block_number, lastCall, feedsWithout, fold, conv>>

NextParse == ApplyParseData

SpecParse == InitParse /\ [][NextParse]_vars

\* the first member from the i-th on whose key is the whole path
RECURSIVE FirstWithKey(_, _, _)
FirstWithKey(members, i, path) ==
    IF i > Len(members) THEN None
    ELSE IF members[i].key = path THEN Some(members[i])
    ELSE FirstWithKey(members, i + 1, path)

\* C18: parse_data takes the first member of the root object whose key equals
\* key_str character by character, whatever the keys of the members before
\* it; a member with another key (an empty one, a proper prefix) is never
\* taken; the result is the conversion of that member's number, and None when
\* the root is no object, no member has that key, or the member is no number.
C18_FullKeyMatch ==
    parse.done =>
        LET sel == IF parse.doc.root = "Object"
                   THEN FirstWithKey(parse.doc.members, 1, parse.key_str)
                   ELSE None
        IN  /\ ~parse.panic
            /\ parse.res =
                 IF sel = None \/ Unwrap(sel).value.type # "Number" THEN None
                 ELSE from_number_value(Unwrap(sel).value.number,
                                        parse.number_type).res

\* C19: a key is in ActiveParamTypes exactly when Infos holds an Info for it,
\* and no key is in ActiveParamTypes twice; so feed_data, once it has found
\* the key in ActiveParamTypes, does not fail with InvalidKey on Infos.
C19_RegistryConsistent ==
    /\ [](\A k \in Keys :
            /\ Contains(activeParamTypes, k) <=> infos[k] # None
            /\ Count(activeParamTypes, k) <= 1)
    /\ [][\A k \in Keys :
            (lastCall'.op = "feed_data" /\ lastCall'.key = k
               /\ lastCall'.res = "InvalidKey")
            => ~Contains(activeParamTypes, k)]_vars

\* C19 witness: one key has been registered, removed and registered again
\* (a value calc wrote under it outlived the removal) while the other key is
\* registered.
C19_Witness ==
    /\ activeParamTypes = <<"K2", "K1">>
    /\ published["K1"] # None
    /\ Unwrap(infos["K1"]).schedule = 0
    /\ lastCall.op = "register_storage_key"
    /\ lastCall.key = "K1"
    /\ lastCall.res = "Ok"

\* C20: DataFeeds holds buffers only under keys of ActiveParamTypes, and every
\* slot of a buffer is of the number_type of the key's Info, also after the
\* key was removed and registered with another number_type; so the filter of
\* calc drops no value.
C20_BufferKind ==
    \A k \in Keys, a \in Accounts :
        dataFeeds[k][a] # None =>
            /\ Contains(activeParamTypes, k)
            /\ infos[k] # None
            /\ \A i \in 1..RING_BUF_LEN :
                  Unwrap(dataFeeds[k][a])[i].t = Unwrap(infos[k]).number_type
            /\ FilterKind(Unwrap(dataFeeds[k][a]), Unwrap(infos[k]).number_type)
                 = [i \in 1..RING_BUF_LEN |-> Unwrap(dataFeeds[k][a])[i].v]

\* C20 witness: a key whose published value is a U128 is registered as
\* FixedU128 and holds a buffer of FixedU128 values.
C20_Witness ==
    \E k \in Keys, a \in Accounts :
        /\ published[k] # None
        /\ Unwrap(published[k]).t = "U128"
        /\ infos[k] # None
        /\ Unwrap(infos[k]).number_type = "FixedU128"
        /\ dataFeeds[k][a] # None

\* C21: for Average over a Vec that is not empty, calc_impl returns a value
\* not below the smallest and not above the largest of the values, also for
\* values at or near the maximum of the number type.
C21_AverageWithinData ==
    (fold.op = "Average" /\ fold.numbers # <<>>) =>
        /\ \E j \in 1..Len(fold.numbers) : fold.numbers[j] <= fold.out
        /\ \E j \in 1..Len(fold.numbers) : fold.out <= fold.numbers[j]

====
